---- MODULE Spec2Model ----
(***************************************************************************)
(* A model of propy: the sparse/dense codec (DataUtil.py), the propagation *)
(* engine (prop.py) and the dataset container (DataLoader.py).             *)
(*                                                                         *)
(* Each component has a specification of its own (SpecCodec, SpecMatrix,   *)
(* SpecReplay, SpecUpdate, SpecShard, SpecBatch); the variables of the     *)
(* components a specification does not exercise stay at their idle value.  *)
(***************************************************************************)
EXTENDS Integers, Sequences, FiniteSets, TLC

VARIABLES
    \* ---- codec (DataUtil.py)
    c_pc,        \* "start" | "listed" | "done"
    c_matrix,    \* the input matrix, a sequence of rows
    c_default,   \* default_value
    c_lst,       \* the result of matrix_to_list
    c_out,       \* the result of list_to_matrix
    \* ---- propagation engine (prop.py)
    g_edges,     \* the graph's edges: (u, v) -> attribute dict (action key -> weight)
    num_info,
    user_actions,          \* the catalog of action keys, a sequence
    info_to_propagation,   \* the ordered dict: a sequence of <<info, events>>
    event_listeners,       \* event type -> sequence of <<callback, kwargs>>
    g_call,      \* the last get_action_matrix call and its result
    g_last,      \* the last simulate_propagation run: listeners and invocations
    g_prev,      \* the run before it
    \* ---- dataset container (DataLoader.py)
    loader,      \* the container: its fields and metadata
    l_op,        \* the last update or dump: its name, whether its payload was empty, what it raised
    files,       \* the directory: shard index i -> the file "<name_prefix>_<i>.pkl"
    dest,        \* the container load() fills
    l_trace,     \* what has happened to the directory
    l_load,      \* the last load(): its listing, its return value
    b_params,    \* the arguments given to get_batch_generator
    b_out        \* is_train -> what the generator yielded

codecVars == <<c_pc, c_matrix, c_default, c_lst, c_out>>
engineVars == <<g_edges, num_info, user_actions, info_to_propagation,
                event_listeners, g_call, g_last, g_prev>>

loaderVars == <<loader, l_op, files, dest, l_trace, l_load, b_params, b_out>>

vars == <<codecVars, engineVars, loaderVars>>

(***************************************************************************)
(* Generic helpers.                                                        *)
(***************************************************************************)

\* range(n) as a sequence: <<0, 1, ..., n-1>>
Range(n) == [k \in 1..n |-> k - 1]

\* seq[start:end], a Python slice with 0 <= start <= end (clipped to the length)
Slice(seq, start, end) ==
    LET lo == IF start > Len(seq) THEN Len(seq) ELSE start
        hi == IF end > Len(seq) THEN Len(seq) ELSE end
    IN  [k \in 1..(IF hi > lo THEN hi - lo ELSE 0) |-> seq[lo + k]]

\* the elements of a sequence
Elems(seq) == {seq[k] : k \in 1..Len(seq)}

(***************************************************************************)
(* Numbers.  A cell value is an integer h standing for the number h/2, so  *)
(* that the fractional values a numpy cast changes are in the model.  A    *)
(* default value also carries its Python type, which fixes the dtype of    *)
(* numpy.full: [h |-> halves, fl |-> it is a float].                       *)
(***************************************************************************)

\* the largest matrix size
MaxN == 2

\* the cell values: -0.5, 0, 0.5, 1
CellValues == {-1, 0, 1, 2}

\* the default values: 0, 1, 0.0, 0.5
Defaults == {[h |-> 0, fl |-> FALSE], [h |-> 2, fl |-> FALSE],
             [h |-> 0, fl |-> TRUE], [h |-> 1, fl |-> TRUE]}

\* the C cast of h/2 to an integer: truncation toward zero
TruncToInt(h) == IF h >= 0 THEN (h \div 2) * 2 ELSE 0 - (((0 - h) \div 2) * 2)

\* the cast numpy applies on matrix[i][j] = val, by the array's dtype
CastToDtype(isFloat, h) == IF isFloat THEN h ELSE TruncToInt(h)

(***************************************************************************)
(* DataUtil.matrix_to_list                                                 *)
(***************************************************************************)

RECURSIVE RowToList(_, _, _, _)
\* the inner loop: for j, val in enumerate(row)
RowToList(i, row, j, default_value) ==
    IF j > Len(row) THEN <<>>
    ELSE (IF row[j] # default_value THEN << <<i, j - 1, row[j]>> >> ELSE <<>>)
         \o RowToList(i, row, j + 1, default_value)

RECURSIVE RowsToList(_, _, _)
\* the outer loop: for i, row in enumerate(matrix)
RowsToList(matrix, i, default_value) ==
    IF i > Len(matrix) THEN <<>>
    ELSE RowToList(i - 1, matrix[i], 1, default_value)
         \o RowsToList(matrix, i + 1, default_value)

\* a faulty variant: every cell is compared with 0 instead of default_value
matrix_to_list_zero(matrix, default_value) == RowsToList(matrix, 1, 0)

matrix_to_list(matrix, default_value) == RowsToList(matrix, 1, default_value)

(***************************************************************************)
(* DataUtil.list_to_matrix.  default_value is [h, fl]; the result's cells  *)
(* are halves again.                                                       *)
(***************************************************************************)

\* np.full(shape=(size, size), fill_value=default_value)
NpFull(size, default_value) ==
    [i \in 1..size |-> [j \in 1..size |-> default_value.h]]

RECURSIVE ApplyTriples(_, _, _, _)
\* for i, j, val in lst: matrix[i][j] = val
ApplyTriples(matrix, lst, k, isFloat) ==
    IF k > Len(lst) THEN matrix
    ELSE ApplyTriples(
            [matrix EXCEPT ![lst[k][1] + 1][lst[k][2] + 1] = CastToDtype(isFloat, lst[k][3])],
            lst, k + 1, isFloat)

list_to_matrix(lst, size, default_value) ==
    ApplyTriples(NpFull(size, default_value), lst, 1, default_value.fl)

(***************************************************************************)
(* The codec's specification: a matrix and a default are drawn, then       *)
(* matrix_to_list and list_to_matrix are applied in turn.                  *)
(***************************************************************************)

Matrices(n) == [1..n -> [1..n -> CellValues]]

CodecIdle ==
    /\ c_pc = "idle"
    /\ c_matrix = <<>>
    /\ c_default = [h |-> 0, fl |-> FALSE]
    /\ c_lst = <<>>
    /\ c_out = <<>>

CodecStart ==
    /\ c_pc = "start"
    /\ \E n \in 1..MaxN : c_matrix \in Matrices(n)
    /\ c_default \in Defaults
    /\ c_lst = <<>>
    /\ c_out = <<>>

MatrixToList ==
    /\ c_pc = "start"
    /\ c_lst' = matrix_to_list(c_matrix, c_default.h)
    /\ c_pc' = "listed"
    /\ UNCHANGED <<c_matrix, c_default, c_out>>
    /\ UNCHANGED <<engineVars, loaderVars>>

ListToMatrix ==
    /\ c_pc = "listed"
    /\ c_out' = list_to_matrix(c_lst, Len(c_matrix), c_default)
    /\ c_pc' = "done"
    /\ UNCHANGED <<c_matrix, c_default, c_lst>>
    /\ UNCHANGED <<engineVars, loaderVars>>

CodecNext == MatrixToList \/ ListToMatrix

(***************************************************************************)
(* The propagation engine (prop.py).  Nodes are 0..NumNodes-1, in the      *)
(* order of the graph's node list.  An event is <<t, parent_id, node_id>>; *)
(* the root marker "ROOT" is the parent -1.                                *)
(***************************************************************************)

\* the number of nodes of the graph
NumNodes == 3

\* the largest event time
MaxTime == 2

\* the largest number of items
MaxInfo == 2

\* the largest number of non-root events of one propagation mapping
MaxEvents == 2

\* the largest number of registered listeners
MaxListeners == 2

Nodes == 0..(NumNodes - 1)

ROOT == 0 - 1

\* "{}_{}".format(action_key, info)
ActionKey(action_key, info) == action_key \o "_" \o ToString(info)

\* add_action: self.add_edge(u, v, **{action_key: value}); the edge is created
\* when absent, and the key is set (overwritten) in its attribute dict
add_action(edges, u, v, action_key, value) ==
    IF <<u, v>> \in DOMAIN edges
    THEN [edges EXCEPT ![<<u, v>>] =
            [k \in (DOMAIN @) \cup {action_key} |-> IF k = action_key THEN value ELSE @[k]]]
    ELSE edges @@ (<<u, v>> :> (action_key :> value))

\* add_edges_from(edges, follow=1) on the empty graph
AddEdgesFrom(edge_set) == [e \in edge_set |-> ("follow" :> 1)]

\* _append_user_actions_with_info, for info in range(num_info)
AppendUserActionsWithInfo(actions, action_key, n) ==
    actions \o [k \in 1..n |-> ActionKey(action_key, k - 1)]

RECURSIVE AddEvents(_, _, _, _)
\* for t, parent_id, node_id in propagation[1:]: add_action(...)
AddEvents(edges, info, events, k) ==
    IF k > Len(events) THEN edges
    ELSE AddEvents(
            add_action(edges, events[k][2], events[k][3], ActionKey("propagate", info), events[k][1]),
            info, events, k + 1)

RECURSIVE AddPropagation(_, _, _)
\* _get_info_to_propagation with an explicit mapping:
\* for info, propagation in propagation_dict.items(), the root entry excluded
AddPropagation(edges, propagation_dict, k) ==
    IF k > Len(propagation_dict) THEN edges
    ELSE AddPropagation(
            AddEvents(edges, propagation_dict[k][1], propagation_dict[k][2], 2),
            propagation_dict, k + 1)

\* NetworkUtil.to_numpy_matrix(self, weight=..., value_for_non_weight_exist=...):
\* cell (u, v) is the weight of edge (u, v) under the key, or the given value
to_numpy_matrix(edges, weight, value_for_non_weight_exist) ==
    [u \in Nodes |-> [v \in Nodes |->
        IF <<u, v>> \in DOMAIN edges /\ weight \in DOMAIN edges[<<u, v>>]
        THEN edges[<<u, v>>][weight]
        ELSE value_for_non_weight_exist]]

\* a faulty variant: a weight equal to time_stamp is dropped too
TimeFilterStrict(action_matrix, time_stamp) ==
    [u \in Nodes |-> [v \in Nodes |->
        IF action_matrix[u][v] < time_stamp THEN action_matrix[u][v] ELSE 0]]

\* np.multiply(action_matrix, action_matrix <= time_stamp)
TimeFilter(action_matrix, time_stamp) ==
    [u \in Nodes |-> [v \in Nodes |->
        action_matrix[u][v] * (IF action_matrix[u][v] <= time_stamp THEN 1 ELSE 0)]]

\* (action_matrix != 0).astype(int)
BinaryRepr(action_matrix) ==
    [u \in Nodes |-> [v \in Nodes |-> IF action_matrix[u][v] # 0 THEN 1 ELSE 0]]

\* get_action_matrix: [raised, matrix]
get_action_matrix(edges, actions, action_key, has_time_stamp, time_stamp, is_binary_repr) ==
    IF action_key \notin Elems(actions)
    THEN [raised |-> "AssertionError", matrix |-> <<>>]
    ELSE LET m0 == to_numpy_matrix(edges, action_key, 0)
             m1 == IF has_time_stamp THEN TimeFilter(m0, time_stamp) ELSE m0
         IN  [raised |-> "none",
              matrix |-> IF is_binary_repr THEN BinaryRepr(m1) ELSE m1]

(***************************************************************************)
(* The inputs of the constructor.  The follow edges are either the chain   *)
(* 0 -> 1 -> ... or none; events run along the chain's pairs, at times     *)
(* 0..MaxTime in non-decreasing order; a propagation begins with its root  *)
(* entry, and its first event, if any, has the root as its parent.         *)
(***************************************************************************)

ChainPairs == {<<u, u + 1>> : u \in 0..(NumNodes - 2)}

EdgeInputs == {ChainPairs, {}}

Events == {<<t, p[1], p[2]>> : t \in 0..MaxTime, p \in ChainPairs}

\* the sequences of k events in non-decreasing time order
EventSeqs(k) ==
    {es \in [1..k -> Events] : \A a \in 1..(k - 1) : es[a][1] <= es[a + 1][1]}

\* the propagations with k non-root events
Propagations(k) ==
    IF k = 0 THEN {<< <<0, ROOT, r>> >> : r \in Nodes}
    ELSE {<< <<0, ROOT, es[1][2]>> >> \o es : es \in EventSeqs(k)}

RECURSIVE PropagationLists(_, _)
\* the lists of n propagations with at most budget non-root events in all
PropagationLists(n, budget) ==
    IF n = 0 THEN {<<>>}
    ELSE UNION {UNION {{Append(rest, p) : rest \in PropagationLists(n - 1, budget - k)}
                        : p \in Propagations(k)}
                 : k \in 0..budget}

\* the insertion orders of the keys 0..n-1
KeyOrders(n) == {o \in [1..n -> 0..(n - 1)] : \A a, b \in 1..n : a # b => o[a] # o[b]}

\* __init__ with an explicit propagation mapping
Constructed(edge_set, n, propagation_dict) ==
    /\ num_info = n
    /\ user_actions = AppendUserActionsWithInfo(<<"follow">>, "propagate", n)
    /\ g_edges = AddPropagation(AddEdgesFrom(edge_set), propagation_dict, 1)
    /\ info_to_propagation = propagation_dict
    /\ event_listeners = [t \in {"propagate", "other"} |-> <<>>]
    /\ g_call = [called |-> FALSE]
    /\ g_last = [ran |-> FALSE]
    /\ g_prev = [ran |-> FALSE]

EngineIdle ==
    /\ g_edges = <<>>
    /\ num_info = 0
    /\ user_actions = <<>>
    /\ info_to_propagation = <<>>
    /\ event_listeners = <<>>
    /\ g_call = [called |-> FALSE]
    /\ g_last = [ran |-> FALSE]
    /\ g_prev = [ran |-> FALSE]

\* the mapping {0: ..., 1: ...}, keys in increasing order
EngineStartOrdered ==
    \E edge_set \in EdgeInputs : \E n \in 1..MaxInfo :
        \E ps \in PropagationLists(n, MaxEvents) :
            Constructed(edge_set, n, [k \in 1..n |-> <<k - 1, ps[k]>>])

\* the mapping with its keys in any insertion order
EngineStartAnyOrder ==
    \E n \in 1..MaxInfo : \E ps \in PropagationLists(n, MaxEvents) :
        \E o \in KeyOrders(n) :
            Constructed(ChainPairs, n, [k \in 1..n |-> <<o[k], ps[k]>>])

\* the keys a caller asks for: the catalog's, and one that is not registered
QueryKeys == Elems(user_actions) \cup {ActionKey("propagate", num_info)}

GetActionMatrix ==
    /\ ~g_call.called
    /\ \E action_key \in QueryKeys : \E has_ts \in BOOLEAN : \E ts \in 0..MaxTime :
       \E is_binary_repr \in BOOLEAN :
          /\ (~has_ts => ts = 0)
          /\ g_call' = [called |-> TRUE, action_key |-> action_key, has_ts |-> has_ts,
                        time_stamp |-> ts, is_binary_repr |-> is_binary_repr,
                        result |-> get_action_matrix(g_edges, user_actions, action_key,
                                                     has_ts, ts, is_binary_repr)]
    /\ UNCHANGED <<g_edges, num_info, user_actions, info_to_propagation,
                   event_listeners, g_last, g_prev>>
    /\ UNCHANGED <<codecVars, loaderVars>>

(***************************************************************************)
(* Listeners and replay.  A callback is an external collaborator; what the *)
(* model keeps of an invocation is its arguments.                          *)
(***************************************************************************)

\* the callbacks with their bound kwargs, and the event types, a caller registers
ListenerInputs == {<<"cb_a", 1>>, <<"cb_a", 2>>, <<"cb_b", 1>>}

EventTypes == {"propagate", "other"}

\* _run_event_listener: for callback_func, kwargs in self.event_listeners[type]
run_event_listener(listeners, given_event_type, event, info) ==
    [l \in 1..Len(listeners[given_event_type]) |->
        [callback |-> listeners[given_event_type][l][1],
         kwargs |-> listeners[given_event_type][l][2],
         event |-> event, info |-> info]]

RECURSIVE ReplayEvents(_, _, _, _)
\* for t, parent_id, node_id in propagation: self._run_event_listener(...)
ReplayEvents(listeners, info, propagation, k) ==
    IF k > Len(propagation) THEN <<>>
    ELSE run_event_listener(listeners, "propagate", propagation[k], info)
         \o ReplayEvents(listeners, info, propagation, k + 1)

RECURSIVE ReplayItems(_, _, _)
\* for info, propagation in self.info_to_propagation.items()
ReplayItems(listeners, propagation_dict, k) ==
    IF k > Len(propagation_dict) THEN <<>>
    ELSE ReplayEvents(listeners, propagation_dict[k][1], propagation_dict[k][2], 1)
         \o ReplayItems(listeners, propagation_dict, k + 1)

\* a faulty variant: the root entry is skipped, as it is when the edges are written
simulate_propagation_without_root(listeners, propagation_dict) ==
    ReplayItems(listeners,
                [k \in 1..Len(propagation_dict) |->
                    <<propagation_dict[k][1], Tail(propagation_dict[k][2])>>], 1)

\* simulate_propagation: the invocations of one run, in order
simulate_propagation(listeners, propagation_dict) ==
    ReplayItems(listeners, propagation_dict, 1)

NumListeners == Len(event_listeners["propagate"]) + Len(event_listeners["other"])

AddEventListener ==
    /\ NumListeners < MaxListeners
    /\ \E event_type \in EventTypes : \E listener \in ListenerInputs :
          event_listeners' = [event_listeners EXCEPT ![event_type] = Append(@, listener)]
    /\ UNCHANGED <<g_edges, num_info, user_actions, info_to_propagation,
                   g_call, g_last, g_prev>>
    /\ UNCHANGED <<codecVars, loaderVars>>

SimulatePropagation ==
    /\ g_last' = [ran |-> TRUE, listeners |-> event_listeners,
                  calls |-> simulate_propagation(event_listeners, info_to_propagation)]
    /\ g_prev' = g_last
    /\ UNCHANGED <<g_edges, num_info, user_actions, info_to_propagation,
                   event_listeners, g_call>>
    /\ UNCHANGED <<codecVars, loaderVars>>

(***************************************************************************)
(* The dataset container (DataLoader.py).  A field is None, a list or a    *)
(* numpy array: [none, kind, items].  Example number id has the matrices   *)
(* <<[[id]]>> (one action; in list form the triples <<[0, 0, id]>>), one   *)
(* selected node and the label id; feature row number id is <<id>>.        *)
(***************************************************************************)

\* the largest number of examples of a container
MaxExamples == 3

\* the largest number of rows of x_features
MaxRows == 3

\* the largest num_subfiles
MaxSubfiles == 3

\* the metadata value None
NoMeta == 0 - 1

None == [none |-> TRUE, kind |-> "none", items |-> <<>>]

List(s) == [none |-> FALSE, kind |-> "list", items |-> s]

Array(s) == [none |-> FALSE, kind |-> "ndarray", items |-> s]

\* assign_or_concat: [raised, value]; value is the base on a raise.
\* list + None raises TypeError, np.concatenate((base, None)) ValueError
assign_or_concat(base_sequence, extra_sequence) ==
    IF base_sequence.none
    THEN [raised |-> "none", value |-> extra_sequence]
    ELSE IF base_sequence.kind = "list"
         THEN IF extra_sequence.none
              THEN [raised |-> "TypeError", value |-> base_sequence]
              ELSE [raised |-> "none", value |-> List(base_sequence.items \o extra_sequence.items)]
         ELSE IF base_sequence.kind = "ndarray"
              THEN IF extra_sequence.none
                   THEN [raised |-> "ValueError", value |-> base_sequence]
                   ELSE [raised |-> "none",
                         value |-> Array(base_sequence.items \o extra_sequence.items)]
              ELSE [raised |-> "TypeError", value |-> base_sequence]

\* ActionMatrixLoader.__init__
NewLoader ==
    [edge_indices_list |-> None, selected_node_indices |-> None,
     x_features |-> None, y_features |-> None, ys |-> None,
     num_x_features |-> NoMeta, num_y_features |-> NoMeta, num_classes |-> NoMeta]

\* update_matrices_and_indices: [raised, c]
update_matrices_and_indices(c, matrices_sequence, selected_node_indices, convert_to_list) ==
    LET in_list_form ==
            IF convert_to_list
            THEN List([k \in 1..Len(matrices_sequence.items) |->
                        [a \in 1..Len(matrices_sequence.items[k]) |->
                            matrix_to_list(matrices_sequence.items[k][a], 0)]])
            ELSE matrices_sequence
        e == assign_or_concat(c.edge_indices_list, in_list_form)
        s == assign_or_concat(c.selected_node_indices, selected_node_indices)
    IN  IF e.raised # "none" THEN [raised |-> e.raised, c |-> c]
        ELSE [raised |-> s.raised,
              c |-> [c EXCEPT !.edge_indices_list = e.value,
                              !.selected_node_indices = s.value]]

\* update_x_features: [raised, c]; x_features[0] of an empty array raises IndexError
update_x_features(c, x_features) ==
    IF c.x_features.none /\ Len(x_features.items) = 0
    THEN [raised |-> IF x_features.none THEN "TypeError" ELSE "IndexError", c |-> c]
    ELSE LET c1 == IF c.x_features.none
                   THEN [c EXCEPT !.num_x_features = Len(x_features.items[1])]
                   ELSE c
             r == assign_or_concat(c.x_features, x_features)
         IN  [raised |-> r.raised, c |-> [c1 EXCEPT !.x_features = r.value]]

\* update_y_features: [raised, c]
update_y_features(c, y_features) ==
    IF c.y_features.none /\ Len(y_features.items) = 0
    THEN [raised |-> IF y_features.none THEN "TypeError" ELSE "IndexError", c |-> c]
    ELSE LET c1 == IF c.y_features.none
                   THEN [c EXCEPT !.num_y_features = Len(y_features.items[1])]
                   ELSE c
             r == assign_or_concat(c.y_features, y_features)
         IN  [raised |-> r.raised, c |-> [c1 EXCEPT !.y_features = r.value]]

\* update_ys: [raised, c]
update_ys(c, ys) ==
    LET c1 == IF c.ys.none THEN [c EXCEPT !.num_classes = 4] ELSE c
        r == assign_or_concat(c.ys, ys)
    IN  [raised |-> r.raised, c |-> [c1 EXCEPT !.ys = r.value]]

\* len(field), 0 for a field that is not set (the model's callers check first)
FieldLen(field) == Len(field.items)

\* the payloads of the examples and rows numbered first..(first + m - 1)
ExampleMatrices(first, m) == List([k \in 1..m |-> << << <<2 * (first + k - 1)>> >> >>])

ExampleEdges(first, m) == List([k \in 1..m |-> << << <<0, 0, 2 * (first + k - 1)>> >> >>])

ExampleNodes(first, m) == List([k \in 1..m |-> <<0>>])

FeatureRows(first, m) == Array([k \in 1..m |-> <<first + k - 1>>])

Labels(first, m) == Array([k \in 1..m |-> first + k - 1])

(***************************************************************************)
(* Accumulation: a fresh container, and the four updates with payloads of  *)
(* 0..MaxExamples new examples or rows.                                    *)
(***************************************************************************)

LoaderIdle ==
    /\ loader = NewLoader
    /\ l_op = [name |-> "init", empty |-> FALSE, raised |-> "none"]
    /\ files = <<>>
    /\ dest = NewLoader
    /\ l_trace = [state |-> "idle"]
    /\ l_load = [done |-> FALSE]
    /\ b_params = <<>>
    /\ b_out = <<>>

Updated(name, m, r) ==
    /\ loader' = r.c
    /\ l_op' = [name |-> name, empty |-> (m = 0), raised |-> r.raised]
    /\ UNCHANGED <<files, dest, l_trace, l_load, b_params, b_out>>
    /\ UNCHANGED <<codecVars, engineVars>>

UpdateMatricesAndIndices ==
    \E m \in 0..MaxExamples : \E convert_to_list \in BOOLEAN :
        LET first == FieldLen(loader.edge_indices_list) + 1
        IN  /\ first + m - 1 <= MaxExamples
            /\ Updated("update_matrices_and_indices", m,
                       update_matrices_and_indices(loader,
                           IF convert_to_list THEN ExampleMatrices(first, m)
                                              ELSE ExampleEdges(first, m),
                           ExampleNodes(first, m), convert_to_list))

UpdateXFeatures ==
    \E m \in 0..MaxRows :
        LET first == FieldLen(loader.x_features) + 1
        IN  /\ first + m - 1 <= MaxRows
            /\ Updated("update_x_features", m, update_x_features(loader, FeatureRows(first, m)))

UpdateYFeatures ==
    \E m \in 0..MaxExamples :
        LET first == FieldLen(loader.y_features) + 1
        IN  /\ first + m - 1 <= MaxExamples
            /\ Updated("update_y_features", m, update_y_features(loader, FeatureRows(first, m)))

UpdateYs ==
    \E m \in 0..MaxExamples :
        LET first == FieldLen(loader.ys) + 1
        IN  /\ first + m - 1 <= MaxExamples
            /\ Updated("update_ys", m, update_ys(loader, Labels(first, m)))

(***************************************************************************)
(* Sharded dump and load.  The directory holds the files                   *)
(* "<name_prefix>_<i>.pkl", i in 0..MaxSubfiles-1, of one prefix; a file   *)
(* is absent, a pickled container, or unreadable (truncated, say).         *)
(***************************************************************************)

\* int(math.ceil(a / b))
CeilDiv(a, b) == (a + b - 1) \div b

\* field[start:end]
SliceField(field, start, end) == [field EXCEPT !.items = Slice(@, start, end)]

\* the body of dump's loop for shard i: the container to pickle, [raised, c]
ShardToDump(c, i, info_batch_size, x_batch_size) ==
    LET info_start == i * info_batch_size
        info_end == (i + 1) * info_batch_size
        x_start == i * x_batch_size
        x_end == (i + 1) * x_batch_size
        r1 == update_matrices_and_indices(NewLoader,
                  SliceField(c.edge_indices_list, info_start, info_end),
                  SliceField(c.selected_node_indices, info_start, info_end), FALSE)
        r2 == update_x_features(r1.c, SliceField(c.x_features, x_start, x_end))
        r3 == update_ys(r2.c, SliceField(c.ys, info_start, info_end))
        r4 == IF c.y_features.none THEN r3
              ELSE update_y_features(r3.c, SliceField(c.y_features, info_start, info_end))
    IN  IF r1.raised # "none" THEN r1
        ELSE IF r2.raised # "none" THEN r2
        ELSE IF r3.raised # "none" THEN r3
        ELSE r4

RECURSIVE DumpShards(_, _, _, _, _, _)
\* for i in range(num_subfiles): ...; dump_batch(...).  [raised, dir]
DumpShards(c, dir, i, num_subfiles, info_batch_size, x_batch_size) ==
    IF i >= num_subfiles THEN [raised |-> "none", dir |-> dir]
    ELSE LET r == ShardToDump(c, i, info_batch_size, x_batch_size)
         IN  IF r.raised # "none" THEN [raised |-> r.raised, dir |-> dir]
             ELSE DumpShards(c, [dir EXCEPT ![i] = [state |-> "ok", c |-> r.c]],
                             i + 1, num_subfiles, info_batch_size, x_batch_size)

\* dump(name_prefix, num_subfiles): [raised, dir]
dump(c, dir, num_subfiles) ==
    IF c.edge_indices_list.none THEN [raised |-> "AssertionError", dir |-> dir]
    ELSE IF c.ys.none \/ c.x_features.none THEN [raised |-> "TypeError", dir |-> dir]
    ELSE IF FieldLen(c.edge_indices_list) # FieldLen(c.ys)
         THEN [raised |-> "AssertionError", dir |-> dir]
    ELSE DumpShards(c, dir, 0, num_subfiles,
                    CeilDiv(FieldLen(c.edge_indices_list), num_subfiles),
                    CeilDiv(FieldLen(c.x_features), num_subfiles))

\* _load_batch: [ok, c].  The five assignments run in turn inside the try block:
\* the ones before a raise are kept
load_batch(c, file) ==
    IF file.state # "ok" THEN [ok |-> FALSE, c |-> c]
    ELSE LET e == assign_or_concat(c.edge_indices_list, file.c.edge_indices_list)
             c1 == [c EXCEPT !.edge_indices_list = e.value]
             s == assign_or_concat(c.selected_node_indices, file.c.selected_node_indices)
             c2 == [c1 EXCEPT !.selected_node_indices = s.value]
             x == assign_or_concat(c.x_features, file.c.x_features)
             c3 == [c2 EXCEPT !.x_features = x.value]
             y == assign_or_concat(c.y_features, file.c.y_features)
             c4 == [c3 EXCEPT !.y_features = y.value]
             l == assign_or_concat(c.ys, file.c.ys)
             c5 == [c4 EXCEPT !.ys = l.value]
         IN  IF e.raised # "none" THEN [ok |-> FALSE, c |-> c]
             ELSE IF s.raised # "none" THEN [ok |-> FALSE, c |-> c1]
             ELSE IF x.raised # "none" THEN [ok |-> FALSE, c |-> c2]
             ELSE IF y.raised # "none" THEN [ok |-> FALSE, c |-> c3]
             ELSE IF l.raised # "none" THEN [ok |-> FALSE, c |-> c4]
             ELSE [ok |-> TRUE, c |-> c5]

RECURSIVE LoadFiles(_, _, _, _)
\* for file_name in file_names_of_prefix: if not self._load_batch(...): return False
\* [ret, c, failed_at]: failed_at is the place in the listing of the failing file
LoadFiles(c, dir, listing, k) ==
    IF k > Len(listing) THEN [ret |-> TRUE, c |-> c, failed_at |-> 0]
    ELSE LET r == load_batch(c, dir[listing[k]])
         IN  IF ~r.ok THEN [ret |-> FALSE, c |-> r.c, failed_at |-> k]
             ELSE LoadFiles(r.c, dir, listing, k + 1)

\* load(name_prefix), given what os.listdir returned for the prefix
load(c, dir, listing) ==
    IF Len(listing) = 0 THEN [ret |-> FALSE, c |-> c, failed_at |-> 0]
    ELSE LoadFiles(c, dir, listing, 1)

ShardIds == 0..(MaxSubfiles - 1)

Present(dir) == {i \in ShardIds : dir[i].state # "absent"}

\* os.listdir is in arbitrary order: every order of the files present
Listings(dir) ==
    {o \in [1..Cardinality(Present(dir)) -> Present(dir)] :
        \A a, b \in DOMAIN o : a # b => o[a] # o[b]}

\* a container of n examples and rows x_features rows, built by the updates
MakeLoader(n, rows, has_y) ==
    LET c1 == update_matrices_and_indices(NewLoader, ExampleEdges(1, n),
                                          ExampleNodes(1, n), FALSE).c
        c2 == update_x_features(c1, FeatureRows(1, rows)).c
        c3 == update_ys(c2, Labels(1, n)).c
    IN  IF has_y THEN update_y_features(c3, FeatureRows(1, n)).c ELSE c3

ShardStart ==
    /\ \E n \in 1..MaxExamples : \E rows \in 1..MaxRows : \E has_y \in BOOLEAN :
          loader = MakeLoader(n, rows, has_y)
    /\ l_op = [name |-> "init", empty |-> FALSE, raised |-> "none"]
    /\ files = [i \in ShardIds |-> [state |-> "absent", c |-> NewLoader]]
    /\ dest = NewLoader
    /\ l_trace = [state |-> "empty", k |-> 0, raised |-> "none"]
    /\ l_load = [done |-> FALSE]
    /\ b_params = <<>>
    /\ b_out = <<>>

Dump ==
    /\ ~l_load.done
    /\ \E num_subfiles \in 1..MaxSubfiles :
          LET r == dump(loader, files, num_subfiles)
          IN  /\ files' = r.dir
              /\ l_op' = [name |-> "dump", empty |-> FALSE, raised |-> r.raised]
              /\ l_trace' = IF l_trace.state = "empty"
                            THEN [state |-> "dumped", k |-> num_subfiles, raised |-> r.raised]
                            ELSE [state |-> "dirty", k |-> 0, raised |-> "none"]
    /\ UNCHANGED <<loader, dest, l_load, b_params, b_out>>
    /\ UNCHANGED <<codecVars, engineVars>>

\* update_y_features on a container that has none yet, one row per example
AddYFeatures ==
    /\ ~l_load.done
    /\ loader.y_features.none
    /\ LET r == update_y_features(loader, FeatureRows(1, FieldLen(loader.ys)))
       IN  /\ loader' = r.c
           /\ l_op' = [name |-> "update_y_features", empty |-> FALSE, raised |-> r.raised]
    /\ l_trace' = IF l_trace.state = "empty" THEN l_trace
                  ELSE [state |-> "dirty", k |-> 0, raised |-> "none"]
    /\ UNCHANGED <<files, dest, l_load, b_params, b_out>>
    /\ UNCHANGED <<codecVars, engineVars>>

\* the environment: a file of the directory becomes unreadable
Corrupt ==
    /\ ~l_load.done
    /\ \E i \in ShardIds :
          /\ files[i].state = "ok"
          /\ files' = [files EXCEPT ![i] = [state |-> "corrupt", c |-> NewLoader]]
    /\ l_trace' = [state |-> "dirty", k |-> 0, raised |-> "none"]
    /\ UNCHANGED <<loader, l_op, dest, l_load, b_params, b_out>>
    /\ UNCHANGED <<codecVars, engineVars>>

\* load(name_prefix) into a fresh container on the same directory
Load ==
    /\ ~l_load.done
    /\ \E listing \in Listings(files) :
          LET r == load(dest, files, listing)
          IN  /\ dest' = r.c
              /\ l_load' = [done |-> TRUE, ret |-> r.ret, listing |-> listing,
                            failed_at |-> r.failed_at]
    /\ UNCHANGED <<loader, l_op, files, l_trace, b_params, b_out>>
    /\ UNCHANGED <<codecVars, engineVars>>

(***************************************************************************)
(* get_batch_generator.  A batch is kept as the example indices whose      *)
(* decoded tuples it holds (data_m, data_xf and data_y grow together).     *)
(* train_ratio is a percentage, and 1 / (1 - train_ratio) is computed      *)
(* exactly.  The random draws are inputs: shuffle_perm is the array        *)
(* np.random.shuffle leaves for the seed, kfold_perm the order KFold draws *)
(* for it; both are fixed with the seed.                                   *)
(***************************************************************************)

\* the largest batch_size (0 stands for a falsy batch_size: None or 0)
MaxBatch == 2

\* the largest fold asked for
MaxFold == 2

\* the values of train_ratio, in percent
TrainPercents == {40, 50, 70}

Min(a, b) == IF a < b THEN a ELSE b

RECURSIVE SortedSeq(_)
\* a set of integers in increasing order
SortedSeq(S) ==
    IF S = {} THEN <<>>
    ELSE LET lo == CHOOSE a \in S : \A b \in S : a <= b
         IN  <<lo>> \o SortedSeq(S \ {lo})

\* int(1 / (1 - train_ratio))
NumSplits(train_pct) == 100 \div (100 - train_pct)

\* sklearn's KFold.split: the positions of the test fold number fold, of n
\* samples in n_splits folds; the first n % n_splits folds hold one more
KFoldTestSet(n, n_splits, fold, kfold_perm) ==
    LET start == fold * (n \div n_splits) + Min(fold, n % n_splits)
        size == (n \div n_splits) + (IF fold < n % n_splits THEN 1 ELSE 0)
    IN  {kfold_perm[k] + 1 : k \in (start + 1)..(start + size)}

\* a faulty variant: the train side keeps the test fold
KFoldTrainIdxAll(n, n_splits, fold, kfold_perm) == SortedSeq(1..n)

\* train_idx, in increasing order
KFoldTrainIdx(n, n_splits, fold, kfold_perm) ==
    SortedSeq((1..n) \ KFoldTestSet(n, n_splits, fold, kfold_perm))

\* test_idx, in increasing order
KFoldTestIdx(n, n_splits, fold, kfold_perm) ==
    SortedSeq(KFoldTestSet(n, n_splits, fold, kfold_perm))

\* indexes[idx]
Take(indexes, idx) == [k \in 1..Len(idx) |-> indexes[idx[k]]]

\* the fold selection: [raised, n_splits, indexes]
SelectFold(indexes, is_train, train_pct, fold, kfold_perm) ==
    LET n == Len(indexes)
        n_splits == NumSplits(train_pct)
    IN  IF is_train = "none" THEN [raised |-> "none", n_splits |-> 0, indexes |-> indexes]
        ELSE IF n_splits <= 1
             THEN [raised |-> "ValueError", n_splits |-> n_splits, indexes |-> indexes]
        ELSE IF ~(n_splits > fold)
             THEN [raised |-> "AssertionError", n_splits |-> n_splits, indexes |-> indexes]
        ELSE IF n_splits > n
             THEN [raised |-> "ValueError", n_splits |-> n_splits, indexes |-> indexes]
        ELSE [raised |-> "none", n_splits |-> n_splits,
              indexes |-> Take(indexes,
                               IF is_train = "train"
                               THEN KFoldTrainIdx(n, n_splits, fold, kfold_perm)
                               ELSE KFoldTestIdx(n, n_splits, fold, kfold_perm))]

\* a faulty variant: the rest is yielded even when it is empty
FinalBatchAlways(data, batches) == Append(batches, data)

\* if len(data_m) != 0: yield ...
FinalBatch(data, batches) == IF Len(data) # 0 THEN Append(batches, data) ELSE batches

RECURSIVE EmitBatches(_, _, _, _, _, _)
\* for i, idx in enumerate(indexes): ...; the batches yielded
EmitBatches(c, indexes, k, data, batches, batch_size) ==
    IF k > Len(indexes) THEN FinalBatch(data, batches)
    ELSE IF Len(c.selected_node_indices.items[indexes[k] + 1]) <= 0
         THEN EmitBatches(c, indexes, k + 1, data, batches, batch_size)
         ELSE LET grown == Append(data, indexes[k])
              IN  IF batch_size # 0 /\ Len(grown) % batch_size = 0
                  THEN EmitBatches(c, indexes, k + 1, <<>>, Append(batches, grown), batch_size)
                  ELSE EmitBatches(c, indexes, k + 1, grown, batches, batch_size)

\* get_batch_generator, run to its end: [ran, raised, n_splits, indexes, batches]
get_batch_generator(c, p, is_train) ==
    IF FieldLen(c.edge_indices_list) # FieldLen(c.ys)
    THEN [ran |-> TRUE, raised |-> "AssertionError", n_splits |-> 0,
          indexes |-> <<>>, batches |-> <<>>]
    ELSE LET indexes == IF p.shuffle THEN p.shuffle_perm
                        ELSE Range(FieldLen(c.edge_indices_list))
             sel == SelectFold(indexes, is_train, p.train_pct, p.fold, p.kfold_perm)
         IN  [ran |-> TRUE, raised |-> sel.raised, n_splits |-> sel.n_splits,
              indexes |-> sel.indexes,
              batches |-> IF sel.raised # "none" THEN <<>>
                          ELSE EmitBatches(c, sel.indexes, 1, <<>>, <<>>, p.batch_size)]

\* the permutations of 0..n-1, as arrays
Perms(n) == {o \in [1..n -> 0..(n - 1)] : \A a, b \in 1..n : a # b => o[a] # o[b]}

Modes == {"none", "train", "test"}

NotRun == [ran |-> FALSE, raised |-> "none", n_splits |-> 0, indexes |-> <<>>, batches |-> <<>>]

\* a container of n examples, some with an empty selected-node list
BatchStart ==
    /\ \E n \in 1..MaxExamples : \E nodes \in [1..n -> {<<>>, <<0>>}] :
          /\ loader = update_ys(
                         update_x_features(
                            update_matrices_and_indices(NewLoader, ExampleEdges(1, n),
                                                        List(nodes), FALSE).c,
                            FeatureRows(1, 1)).c,
                         Labels(1, n)).c
          /\ \E batch_size \in 0..MaxBatch : \E shuffle \in BOOLEAN :
             \E train_pct \in TrainPercents : \E fold \in 0..MaxFold :
             \E shuffle_perm \in Perms(n) : \E kfold_perm \in Perms(n) :
                /\ (~shuffle => shuffle_perm = Range(n) /\ kfold_perm = Range(n))
                /\ b_params = [batch_size |-> batch_size, shuffle |-> shuffle,
                               train_pct |-> train_pct, fold |-> fold,
                               shuffle_perm |-> shuffle_perm, kfold_perm |-> kfold_perm]
    /\ b_out = [m \in Modes |-> NotRun]
    /\ l_op = [name |-> "init", empty |-> FALSE, raised |-> "none"]
    /\ files = <<>>
    /\ dest = NewLoader
    /\ l_trace = [state |-> "idle"]
    /\ l_load = [done |-> FALSE]

\* get_batch_generator(...) consumed to its end, with is_train None, True or False
GetBatchGenerator ==
    /\ \E is_train \in Modes :
          /\ ~b_out[is_train].ran
          /\ b_out' = [b_out EXCEPT ![is_train] = get_batch_generator(loader, b_params, is_train)]
    /\ UNCHANGED <<loader, l_op, files, dest, l_trace, l_load, b_params>>
    /\ UNCHANGED <<codecVars, engineVars>>


(***************************************************************************)
(* The specifications, one per component.                                  *)
(***************************************************************************)

CodecInit == CodecStart /\ EngineIdle /\ LoaderIdle

SpecCodec == CodecInit /\ [][CodecNext]_vars

MatrixInit == CodecIdle /\ EngineStartOrdered /\ LoaderIdle

MatrixNext == GetActionMatrix

SpecMatrix == MatrixInit /\ [][MatrixNext]_vars

ReplayInit == CodecIdle /\ EngineStartAnyOrder /\ LoaderIdle

ReplayNext == AddEventListener \/ SimulatePropagation

SpecReplay == ReplayInit /\ [][ReplayNext]_vars

UpdateInit == CodecIdle /\ EngineIdle /\ LoaderIdle

UpdateNext == UpdateMatricesAndIndices \/ UpdateXFeatures \/ UpdateYFeatures \/ UpdateYs

SpecUpdate == UpdateInit /\ [][UpdateNext]_vars

ShardInit == CodecIdle /\ EngineIdle /\ ShardStart

ShardNext == Dump \/ AddYFeatures \/ Corrupt \/ Load

SpecShard == ShardInit /\ [][ShardNext]_vars

BatchInit == CodecIdle /\ EngineIdle /\ BatchStart

BatchNext == GetBatchGenerator

SpecBatch == BatchInit /\ [][BatchNext]_vars

(***************************************************************************)
(* C6.  Replay.                                                            *)
(***************************************************************************)

RECURSIVE EventsBefore(_, _)
\* the number of stored events of the items before the k-th of the mapping
EventsBefore(propagation_dict, k) ==
    IF k <= 1 THEN 0
    ELSE Len(propagation_dict[k - 1][2]) + EventsBefore(propagation_dict, k - 1)

\* the invocations of a run are those of the items in the mapping's order, of
\* each item's events in stored order (the root entry first), and of the
\* "propagate" listeners in registration order: the invocation of listener l
\* for event e of the k-th item stands at one position, and there are no others
ReplayedInOrder(run) ==
    LET ls == run.listeners["propagate"]
        d  == info_to_propagation
    IN  /\ Len(run.calls) = EventsBefore(d, Len(d) + 1) * Len(ls)
        /\ \A k \in 1..Len(d) : \A e \in 1..Len(d[k][2]) : \A l \in 1..Len(ls) :
              run.calls[(EventsBefore(d, k) + e - 1) * Len(ls) + l] =
                  [callback |-> ls[l][1], kwargs |-> ls[l][2],
                   event |-> d[k][2][e], info |-> d[k][1]]

EventsOf(info) ==
    LET k == CHOOSE k \in 1..Len(info_to_propagation) : info_to_propagation[k][1] = info
    IN  info_to_propagation[k][2]

\* the positions of item info's events along (u, v), the root entry apart
EventsAlong(info, u, v) ==
    {k \in 2..Len(EventsOf(info)) : EventsOf(info)[k][2] = u /\ EventsOf(info)[k][3] = v}

\* the time of the event of item info along (u, v): of the last one stored, were
\* the pair to occur twice
EventTime(info, u, v) ==
    EventsOf(info)[CHOOSE k \in EventsAlong(info, u, v) :
                       \A j \in EventsAlong(info, u, v) : j <= k][1]

\* the catalog holds "follow" and one "propagate_<i>" per item
CatalogOfItems ==
    user_actions = <<"follow">> \o [k \in 1..num_info |-> ActionKey("propagate", k - 1)]

\* C7: after construction with an explicit mapping, get_action_matrix of
\* "propagate_<i>" has in cell (u, v) the time t of item i's event (t, u, v) when
\* there is one and, a time stamp given, t <= time_stamp, and 0 in every other
\* cell; "follow" has 1 on the follow edges.
C7_ActionMatrixOfEvents ==
    /\ CatalogOfItems
    /\ (g_call.called /\ ~g_call.is_binary_repr) =>
          \A i \in 0..(num_info - 1) :
             g_call.action_key = ActionKey("propagate", i) =>
                /\ g_call.result.raised = "none"
                /\ DOMAIN g_call.result.matrix = Nodes
                /\ \A u \in Nodes : \A v \in Nodes :
                      g_call.result.matrix[u][v] =
                         IF /\ EventsAlong(i, u, v) # {}
                            /\ (g_call.has_ts => EventTime(i, u, v) <= g_call.time_stamp)
                         THEN EventTime(i, u, v)
                         ELSE 0

\* C7's case: the scenario of the claim, nodes 0..2, events (1, 0, 1), (2, 1, 2),
\* queried with time_stamp = 1: (0, 1) keeps its 1 and (1, 2) is zeroed.
C7_Witness ==
    /\ g_call.called /\ ~g_call.is_binary_repr
    /\ info_to_propagation = << <<0, << <<0, ROOT, 0>>, <<1, 0, 1>>, <<2, 1, 2>> >> >> >>
    /\ g_call.action_key = "propagate_0"
    /\ g_call.has_ts /\ g_call.time_stamp = 1
    /\ g_call.result.matrix[0][1] = 1
    /\ g_call.result.matrix[1][2] = 0
    /\ g_edges[<<1, 2>>]["propagate_0"] = 2

\* C8 as stated: the binary matrix has 1 in cell (u, v) exactly when edge (u, v)
\* carries the action key and, a time stamp given, its weight is <= time_stamp,
\* whatever the weight is (0 included); 0 otherwise.
C8_BinaryMarksEveryEdge ==
    (g_call.called /\ g_call.is_binary_repr /\ g_call.result.raised = "none") =>
        \A u \in Nodes : \A v \in Nodes :
            g_call.result.matrix[u][v] =
                IF /\ <<u, v>> \in DOMAIN g_edges
                   /\ g_call.action_key \in DOMAIN g_edges[<<u, v>>]
                   /\ (g_call.has_ts =>
                          g_edges[<<u, v>>][g_call.action_key] <= g_call.time_stamp)
                THEN 1 ELSE 0

(***************************************************************************)
(* C3.  Round trip of the codec.                                           *)
(***************************************************************************)

\* every non-default cell survives the cast to the dtype the default fixes
Representable(matrix, default_value) ==
    \A i \in 1..Len(matrix) : \A j \in 1..Len(matrix) :
        matrix[i][j] # default_value.h =>
            CastToDtype(default_value.fl, matrix[i][j]) = matrix[i][j]

\* the triples matrix_to_list is to emit: [i, j, M[i][j]] for the cells that
\* differ from the default, in row-major order
RowMajorTriples(lst, matrix, default_value) ==
    /\ \A k \in 1..Len(lst) :
          /\ lst[k][1] \in 0..(Len(matrix) - 1)
          /\ lst[k][2] \in 0..(Len(matrix) - 1)
          /\ lst[k][3] = matrix[lst[k][1] + 1][lst[k][2] + 1]
          /\ lst[k][3] # default_value
    /\ \A k \in 1..(Len(lst) - 1) :
          lst[k][1] * Len(matrix) + lst[k][2] < lst[k + 1][1] * Len(matrix) + lst[k + 1][2]
    /\ \A i \in 1..Len(matrix) : \A j \in 1..Len(matrix) :
          matrix[i][j] # default_value =>
              \E k \in 1..Len(lst) : lst[k][1] = i - 1 /\ lst[k][2] = j - 1

\* C3 as stated: for every square matrix M and every default d,
\* list_to_matrix(matrix_to_list(M, d), N, d) equals M cell for cell.
C3_RoundTripEveryMatrix ==
    c_pc = "done" => c_out = c_matrix

\* C3 amended: matrix_to_list emits exactly the non-default cells in row-major
\* order, and the round trip gives M back whenever every non-default cell of M
\* is representable in the dtype numpy infers from the default.
C3_RoundTripRepresentable ==
    /\ c_pc \in {"listed", "done"} => RowMajorTriples(c_lst, c_matrix, c_default.h)
    /\ (c_pc = "done" /\ Representable(c_matrix, c_default)) => c_out = c_matrix

\* C3's case: a 2 x 2 matrix with a non-zero default, default and non-default
\* cells, a fractional cell kept by a float default, round trip done.
C3_Witness ==
    /\ c_pc = "done"
    /\ Len(c_matrix) = 2
    /\ c_default = [h |-> 1, fl |-> TRUE]
    /\ c_matrix[1][2] = -1
    /\ c_matrix[2][1] = 1
    /\ c_matrix[2][2] = 2
    /\ Len(c_lst) = 3
    /\ c_out = c_matrix

(***************************************************************************)
(* C5.  Empty updates.                                                     *)
(***************************************************************************)

\* C5 as stated: in every reachable state of the container, the fresh one
\* included, an update with an empty payload completes and leaves every field
\* and the metadata unchanged.
C5_EmptyUpdateChangesNothing ==
    [][l_op'.empty => (l_op'.raised = "none" /\ loader' = loader)]_vars

(***************************************************************************)
(* C1, C4.  Sharded dump and load.                                         *)
(***************************************************************************)

\* the five data fields of a container
DataFields(c) ==
    <<c.edge_indices_list, c.selected_node_indices, c.x_features, c.y_features, c.ys>>

\* C1 as stated: for a container of n >= 1 examples and any num_subfiles k >= 1,
\* dump completes and writes exactly the files 0..k-1, and load into a fresh
\* container on the same directory returns True and gives the five fields equal
\* to the original's, in the original order.
C1_DumpLoadRoundTrip ==
    /\ l_trace.state = "dumped" =>
          /\ l_trace.raised = "none"
          /\ \A i \in ShardIds : (files[i].state = "ok") <=> (i < l_trace.k)
    /\ (l_trace.state = "dumped" /\ l_load.done) =>
          /\ l_load.ret
          /\ DataFields(dest) = DataFields(loader)

\* a shard taken whole or not at all: a shard that fails leaves the fields alone
load_batch_atomic(c, file) ==
    IF file.state # "ok" THEN [ok |-> FALSE, c |-> c]
    ELSE LET e == assign_or_concat(c.edge_indices_list, file.c.edge_indices_list)
             s == assign_or_concat(c.selected_node_indices, file.c.selected_node_indices)
             x == assign_or_concat(c.x_features, file.c.x_features)
             y == assign_or_concat(c.y_features, file.c.y_features)
             l == assign_or_concat(c.ys, file.c.ys)
         IN  IF \/ e.raised # "none" \/ s.raised # "none" \/ x.raised # "none"
                \/ y.raised # "none" \/ l.raised # "none"
             THEN [ok |-> FALSE, c |-> c]
             ELSE [ok |-> TRUE,
                   c |-> [c EXCEPT !.edge_indices_list = e.value,
                                   !.selected_node_indices = s.value,
                                   !.x_features = x.value, !.y_features = y.value,
                                   !.ys = l.value]]

RECURSIVE Accumulated(_, _, _)
\* the accumulation of the first k files of a listing, each taken whole
Accumulated(dir, listing, k) ==
    IF k = 0 THEN NewLoader
    ELSE load_batch_atomic(Accumulated(dir, listing, k - 1), dir[listing[k]]).c

\* C4 as stated: load returns False when no file matches, and when a shard fails
\* it returns False at that shard with the fields equal to the accumulation of
\* the shards loaded before it, the failing shard contributing nothing.
C4_FailingShardContributesNothing ==
    l_load.done =>
        /\ Len(l_load.listing) = 0 => (~l_load.ret /\ dest = NewLoader)
        /\ ~l_load.ret /\ Len(l_load.listing) > 0 =>
              /\ l_load.failed_at \in 1..Len(l_load.listing)
              /\ DataFields(dest) =
                    DataFields(Accumulated(files, l_load.listing, l_load.failed_at - 1))

(***************************************************************************)
(* C2, C9, C10.  Batches.                                                  *)
(***************************************************************************)

RECURSIVE Flatten(_)
\* the concatenation of the batches
Flatten(batches) ==
    IF Len(batches) = 0 THEN <<>> ELSE Head(batches) \o Flatten(Tail(batches))

\* the example indices whose selected-node list is not empty
ValidExamples ==
    {i \in 0..(FieldLen(loader.selected_node_indices) - 1) :
        Len(loader.selected_node_indices.items[i + 1]) > 0}

Emitted(mode) == Elems(Flatten(b_out[mode].batches))

\* C2: for one container, seed, shuffle flag, train_ratio and fold, when the
\* generators for is_train=True and is_train=False both run to their end, the
\* sets of example indices they emit are disjoint and their union is the set of
\* the examples with a non-empty selected-node list; both raise or neither does.
C2_FoldPartition ==
    (b_out["train"].ran /\ b_out["test"].ran) =>
        /\ b_out["train"].raised = b_out["test"].raised
        /\ b_out["train"].raised = "none" =>
              /\ Emitted("train") \cap Emitted("test") = {}
              /\ Emitted("train") \cup Emitted("test") = ValidExamples

\* C2's case: shuffled, three examples of which one has no selected node, both
\* sides run and both emit something.
C2_Witness ==
    /\ b_out["train"].ran /\ b_out["test"].ran
    /\ b_out["train"].raised = "none"
    /\ b_params.shuffle
    /\ b_params.shuffle_perm # Range(Len(b_params.shuffle_perm))
    /\ FieldLen(loader.ys) = 3
    /\ Cardinality(ValidExamples) = 2
    /\ Emitted("train") # {}
    /\ Emitted("test") # {}

\* the subsequence of the valid examples
RECURSIVE OnlyValid(_)
OnlyValid(indexes) ==
    IF Len(indexes) = 0 THEN <<>>
    ELSE (IF Head(indexes) \in ValidExamples THEN <<Head(indexes)>> ELSE <<>>)
         \o OnlyValid(Tail(indexes))

\* C9: for a truthy batch_size b every batch but the last holds b examples, the
\* last holds 1..b, none is empty, and the batches concatenated are the selected
\* indices with a non-empty selected-node list, each once, in the order of the
\* index permutation; for a falsy batch_size there is one batch with all of
\* them, and none when there are none.
C9_BatchSizes ==
    \A mode \in Modes :
        (b_out[mode].ran /\ b_out[mode].raised = "none") =>
            LET bs == b_out[mode].batches
                b == b_params.batch_size
            IN  /\ mode = "none" =>
                      b_out[mode].indexes = (IF b_params.shuffle THEN b_params.shuffle_perm
                                             ELSE Range(FieldLen(loader.ys)))
                /\ Flatten(bs) = OnlyValid(b_out[mode].indexes)
                /\ \A k \in 1..Len(bs) : Len(bs[k]) >= 1
                /\ b # 0 => /\ \A k \in 1..(Len(bs) - 1) : Len(bs[k]) = b
                            /\ \A k \in 1..Len(bs) : Len(bs[k]) <= b
                /\ b = 0 => Len(bs) <= 1

\* C9's case: batch_size 2 over three valid examples, shuffled: a full batch
\* and a last batch of one.
C9_Witness ==
    /\ b_out["none"].ran
    /\ b_params.batch_size = 2
    /\ b_params.shuffle
    /\ b_params.shuffle_perm = <<2, 0, 1>>
    /\ b_out["none"].batches = << <<2, 0>>, <<1>> >>

\* round(a / b), halves to the even neighbour
RoundDiv(a, b) ==
    LET q == a \div b
        r == a % b
    IN  IF 2 * r < b THEN q
        ELSE IF 2 * r > b THEN q + 1
        ELSE IF q % 2 = 0 THEN q ELSE q + 1

\* C10 as stated: with is_train given, the indices are split into exactly
\* round(1 / (1 - train_ratio)) folds, and the call goes through only for a
\* fold smaller than that count.
C10_RoundedFoldCount ==
    \A mode \in {"train", "test"} :
        b_out[mode].ran =>
            /\ b_out[mode].n_splits = RoundDiv(100, 100 - b_params.train_pct)
            /\ b_out[mode].raised = "none" =>
                  b_params.fold < RoundDiv(100, 100 - b_params.train_pct)

====
